---- MODULE Spec2Model ----
(***************************************************************************)
(* SmartDeskMap: the Express server of src/index.js.  A catalog of tables  *)
(* lives in one JSON file (data/tables.json); every handler reads the      *)
(* whole file, works on the parsed copy and writes the whole file back.    *)
(*                                                                         *)
(* Every handler is a synchronous function (readFileSync, writeFileSync,   *)
(* no await, no callback), so Node's event loop runs it to completion      *)
(* before it starts the handler of another request: one handler is one     *)
(* atomic action.  "Concurrent" requests are requests that are in flight   *)
(* together and that the event loop serves one after the other, in any     *)
(* order.  The store is the environment: a read or a write of the file may *)
(* fail, which readData and writeData catch and log.                       *)
(***************************************************************************)
EXTENDS Integers, Sequences, FiniteSets, TLC

VARIABLES file, last, inflight, results, probe

vars == <<file, last, inflight, results, probe>>

(***************************************************************************)
(* Bounds of the model.                                                    *)
(***************************************************************************)
\* instants are 0..MaxTime (milliseconds since the epoch)
MaxTime == 3
\* reservations the catalog holds at most (the code has no limit)
MaxReservations == 3
\* callers whose reserve requests are in flight together
MaxCallers == 2

Times == 0..MaxTime

\* ids of the tables of data/tables.json, and the ids a request may name
TableIds == {1, 2}
RequestIds == TableIds \cup {3}

(***************************************************************************)
(* Timestamps.  A timestamp travels as a string; new Date(s) parses it to  *)
(* an instant (or to an invalid Date, NaN) and toISOString() prints the    *)
(* instant in the one canonical UTC form.  A timestamp string is modelled  *)
(* by what it says: a wall-clock time and a UTC offset ("...T01:00+01:00"  *)
(* and "...T00:00Z" are two strings for one instant).                      *)
(***************************************************************************)
NaN == -1

TimeString(wall, off) == [kind |-> "ts", wall |-> wall, off |-> off]
Garbage == [kind |-> "garbage", wall |-> 0, off |-> 0]
\* undefined, null or "": the field is absent from the body (falsy)
Absent == [kind |-> "absent", wall |-> 0, off |-> 0]

\* new Date(s).getTime()
DateParse(s) == IF s.kind = "ts" THEN s.wall - s.off ELSE NaN

\* Date.prototype.toISOString
toISOString(t) == TimeString(t, 0)

isNaN(d) == d = NaN

\* relational operators on Dates: every comparison with NaN is false
Lt(a, b) == a # NaN /\ b # NaN /\ a < b
Ge(a, b) == a # NaN /\ b # NaN /\ a >= b
Gt(a, b) == a # NaN /\ b # NaN /\ a > b

\* !v of JavaScript on a body field
Falsy(v) == v = Absent
FalsyName(u) == u = ""

\* the values a client can send
TimeInputs ==
  {TimeString(t, 0) : t \in Times} \cup {TimeString(2, 1), Garbage, Absent}
NameInputs == {"ann", ""}

(***************************************************************************)
(* Helper functions of the server.                                         *)
(***************************************************************************)
\* data.tables of { tables: [] }
EmptyTables == <<>>

\* variant of readData: the catalog parsed earlier is served when the read fails
readData_cached(f, readOk) == f

\* readData: the parsed file, or { tables: [] } when reading or parsing fails
readData(f, readOk) == IF readOk THEN f ELSE EmptyTables

\* writeData: the file after the call; a failed write is caught and logged
writeData(f, data, writeOk) == IF writeOk THEN data ELSE f

\* variant of overlaps: closed intervals, <= for <
overlaps_touching(aStart, aEnd, bStart, bEnd) ==
  aStart # NaN /\ aEnd # NaN /\ bStart # NaN /\ bEnd # NaN
    /\ aStart <= bEnd /\ bStart <= aEnd

\* variant of overlaps: aStart written for aEnd in the second comparison
overlaps_oneSided(aStart, aEnd, bStart, bEnd) ==
  Lt(aStart, bEnd) /\ Lt(bStart, aStart)

\* intervals [aStart, aEnd) and [bStart, bEnd) overlap
overlaps(aStart, aEnd, bStart, bEnd) ==
  Lt(aStart, bEnd) /\ Lt(bStart, aEnd)

\* variant of find: falls back to the first table (find(...) || data.tables[0])
find_orFirst(tables, id) ==
  IF \E i \in 1..Len(tables) : tables[i].id = id
  THEN CHOOSE i \in 1..Len(tables) :
         tables[i].id = id /\ \A j \in 1..(i - 1) : tables[j].id # id
  ELSE IF Len(tables) > 0 THEN 1 ELSE 0

\* data.tables.find((t) => t.id === id): the index of the first table with
\* that id, 0 for undefined
find(tables, id) ==
  IF \E i \in 1..Len(tables) : tables[i].id = id
  THEN CHOOSE i \in 1..Len(tables) :
         tables[i].id = id /\ \A j \in 1..(i - 1) : tables[j].id # id
  ELSE 0

\* the response of a handler together with what the handler did on its way
\* (rd, rdOk: readData was called, and read the file; wr, wrOk: writeData was
\* called, and wrote it; loaded: the catalog readData returned; written: the
\* catalog handed to writeData)
Call(op, req, status, error, body, removed, loaded, written, rd, rdOk, wr, wrOk) ==
  [op |-> op, req |-> req, status |-> status, error |-> error, body |-> body,
   removed |-> removed, loaded |-> loaded, written |-> written,
   readCalled |-> rd, readOk |-> rd /\ rdOk,
   writeCalled |-> wr, writeOk |-> wr /\ wrOk]

Request(id, username, start, end, now) ==
  [id |-> id, username |-> username, start |-> start, end |-> end, now |-> now]

NoRequest == Request(0, "", Absent, Absent, 0)
NoCall ==
  Call("none", NoRequest, 0, "", <<>>, 0, <<>>, <<>>, FALSE, FALSE, FALSE, FALSE)

\* the file after a handler that made the call c
fileAfter(f, c) ==
  IF c.writeCalled THEN writeData(f, c.written, c.writeOk) ELSE f

(***************************************************************************)
(* GET /api/tables and GET /api/tables/:id                                 *)
(***************************************************************************)
listTables(f, readOk) ==
  LET data == readData(f, readOk)
  IN Call("list", NoRequest, 200, "", data, 0, data, <<>>,
          TRUE, readOk, FALSE, FALSE)

getTable(f, id, readOk) ==
  LET data == readData(f, readOk)
      i == find(data, id)
      req == Request(id, "", Absent, Absent, 0)
  IN IF i = 0
     THEN Call("get", req, 404, "Tavolo non trovato", <<>>, 0, data, <<>>,
               TRUE, readOk, FALSE, FALSE)
     ELSE Call("get", req, 200, "", <<data[i]>>, 0, data, <<>>,
               TRUE, readOk, FALSE, FALSE)

(***************************************************************************)
(* POST /api/tables/:id/reserve                                            *)
(***************************************************************************)
\* variant of missingFields: the owner is not checked
missingFields_noName(username, start, end) ==
  Falsy(start) \/ Falsy(end)

\* !username || !start || !end
missingFields(username, start, end) ==
  FalsyName(username) \/ Falsy(start) \/ Falsy(end)

\* variant of invalidDates: > for >=
invalidDates_reversedOnly(startDate, endDate) ==
  isNaN(startDate) \/ isNaN(endDate) \/ Gt(startDate, endDate)

\* isNaN(startDate) || isNaN(endDate) || startDate >= endDate
invalidDates(startDate, endDate) ==
  isNaN(startDate) \/ isNaN(endDate) \/ Ge(startDate, endDate)

\* tavolo.reservations.some((r) => overlaps(new Date(r.start), new Date(r.end),
\*                                         startDate, endDate))
conflitto(tavolo, startDate, endDate) ==
  \E k \in 1..Len(tavolo.reservations) :
    overlaps(DateParse(tavolo.reservations[k].start),
             DateParse(tavolo.reservations[k].end), startDate, endDate)

\* tavolo.reservations.push({ username, start: ..., end: ... })
push(tavolo, username, startDate, endDate) ==
  [tavolo EXCEPT !.reservations =
     Append(@, [username |-> username, start |-> toISOString(startDate),
                end |-> toISOString(endDate)])]

\* variant of reserveTable: the reservation is pushed and saved before the
\* conflict check answers 409
reserveTable_saveBeforeCheck(f, req, readOk, writeOk) ==
  LET startDate == DateParse(req.start)
      endDate == DateParse(req.end)
      data == readData(f, readOk)
      i == find(data, req.id)
      tavolo == push(data[i], req.username, startDate, endDate)
  IN IF missingFields(req.username, req.start, req.end)
     THEN Call("reserve", req, 400, "Campi mancanti", <<>>, 0, <<>>, <<>>,
               FALSE, FALSE, FALSE, FALSE)
     ELSE IF invalidDates(startDate, endDate)
     THEN Call("reserve", req, 400, "Date non valide", <<>>, 0, <<>>, <<>>,
               FALSE, FALSE, FALSE, FALSE)
     ELSE IF i = 0
     THEN Call("reserve", req, 404, "Tavolo non trovato", <<>>, 0, data, <<>>,
               TRUE, readOk, FALSE, FALSE)
     ELSE Call("reserve", req,
               IF conflitto(data[i], startDate, endDate) THEN 409 ELSE 201,
               "", <<tavolo>>, 0, data,
               [data EXCEPT ![i] = tavolo], TRUE, readOk, TRUE, writeOk)

reserveTable(f, req, readOk, writeOk) ==
  LET startDate == DateParse(req.start)
      endDate == DateParse(req.end)
      data == readData(f, readOk)
      i == find(data, req.id)
      tavolo == push(data[i], req.username, startDate, endDate)
  IN IF missingFields(req.username, req.start, req.end)
     THEN Call("reserve", req, 400, "Campi mancanti", <<>>, 0, <<>>, <<>>,
               FALSE, FALSE, FALSE, FALSE)
     ELSE IF invalidDates(startDate, endDate)
     THEN Call("reserve", req, 400, "Date non valide", <<>>, 0, <<>>, <<>>,
               FALSE, FALSE, FALSE, FALSE)
     ELSE IF i = 0
     THEN Call("reserve", req, 404, "Tavolo non trovato", <<>>, 0, data, <<>>,
               TRUE, readOk, FALSE, FALSE)
     ELSE IF conflitto(data[i], startDate, endDate)
     THEN Call("reserve", req, 409, "Tavolo gia prenotato in quell'intervallo",
               <<>>, 0, data, <<>>, TRUE, readOk, FALSE, FALSE)
     ELSE Call("reserve", req, 201, "", <<tavolo>>, 0, data,
               [data EXCEPT ![i] = tavolo], TRUE, readOk, TRUE, writeOk)

(***************************************************************************)
(* POST /api/tables/:id/release                                            *)
(***************************************************************************)
\* tavolo.reservations = []
clear(tavolo) == [tavolo EXCEPT !.reservations = <<>>]

releaseTable(f, id, readOk, writeOk) ==
  LET data == readData(f, readOk)
      i == find(data, id)
      req == Request(id, "", Absent, Absent, 0)
  IN IF i = 0
     THEN Call("release", req, 404, "Tavolo non trovato", <<>>, 0, data, <<>>,
               TRUE, readOk, FALSE, FALSE)
     ELSE Call("release", req, 200, "", <<clear(data[i])>>, 0, data,
               [data EXCEPT ![i] = clear(data[i])], TRUE, readOk, TRUE, writeOk)

(***************************************************************************)
(* POST /api/cleanup                                                       *)
(***************************************************************************)
\* variant of notExpired: >= for >
notExpired_strictlyBefore(r, now) == Ge(DateParse(r.end), now)

\* (r) => new Date(r.end) > now
notExpired(r, now) == Gt(DateParse(r.end), now)

\* t.reservations = t.reservations.filter(...), for every table
sweep(tables, now) ==
  [i \in 1..Len(tables) |->
     [tables[i] EXCEPT !.reservations =
        SelectSeq(@, LAMBDA r : notExpired(r, now))]]

\* variant of removedUpTo: removed = for removed +=
removedUpTo_lastOnly(before, after, n) ==
  IF n = 0 THEN 0
  ELSE Len(before[n].reservations) - Len(after[n].reservations)

\* removed += before - t.reservations.length, over the first n tables
RECURSIVE removedUpTo(_, _, _)
removedUpTo(before, after, n) ==
  IF n = 0 THEN 0
  ELSE removedUpTo(before, after, n - 1)
         + (Len(before[n].reservations) - Len(after[n].reservations))

cleanupExpired(f, now, readOk, writeOk) ==
  LET data == readData(f, readOk)
      swept == sweep(data, now)
      removed == removedUpTo(data, swept, Len(data))
      req == Request(0, "", Absent, Absent, now)
  IN Call("cleanup", req, 200, "", <<>>, removed, data, swept,
          TRUE, readOk, TRUE, writeOk)

(***************************************************************************)
(* The server: one action per route, each the whole handler.               *)
(***************************************************************************)
table(id) == [id |-> id, reservations |-> <<>>]

\* data/tables.json as shipped: the tables, none reserved
InitialTables == <<table(1), table(2)>>

RECURSIVE TotalReservations(_)
TotalReservations(tables) ==
  IF tables = <<>> THEN 0
  ELSE Len(Head(tables).reservations) + TotalReservations(Tail(tables))

\* the names the callers of a concurrent batch book under
CallerNames == <<"ann", "bob", "cat", "dan", "eve">>
Callers == 1..MaxCallers

\* the intervals a caller of a concurrent batch asks for, as ISO strings
ValidIntervals == {<<s, e>> \in Times \X Times : s < e}

\* one evaluation of overlaps on two pairs of Dates, in both argument orders
Probe(aStart, aEnd, bStart, bEnd, done, ab, ba) ==
  [aStart |-> aStart, aEnd |-> aEnd, bStart |-> bStart, bEnd |-> bEnd,
   done |-> done, ab |-> ab, ba |-> ba]

NoProbe == Probe(NaN, NaN, NaN, NaN, FALSE, FALSE, FALSE)

Init ==
  /\ file = InitialTables
  /\ last = NoCall
  /\ inflight = {}
  /\ results = {}
  /\ probe = NoProbe

\* The handler of one request runs from its first line to its response:
\* `last` is the response being sent, together with what the handler did.
\* The event loop starts a handler when the previous response has gone out.
Handled(c) ==
  /\ last' = c
  /\ file' = fileAfter(file, c)
  /\ TotalReservations(file') <= MaxReservations

ListTables ==
  /\ last = NoCall
  /\ \E readOk \in BOOLEAN : Handled(listTables(file, readOk))
  /\ UNCHANGED <<inflight, results, probe>>

GetTable ==
  /\ last = NoCall
  /\ \E id \in RequestIds, readOk \in BOOLEAN :
       Handled(getTable(file, id, readOk))
  /\ UNCHANGED <<inflight, results, probe>>

ReserveTable ==
  /\ last = NoCall
  /\ \E id \in RequestIds, username \in NameInputs,
        start \in TimeInputs, end \in TimeInputs,
        readOk \in BOOLEAN, writeOk \in BOOLEAN :
       Handled(reserveTable(file, Request(id, username, start, end, 0),
                            readOk, writeOk))
  /\ UNCHANGED <<inflight, results, probe>>

ReleaseTable ==
  /\ last = NoCall
  /\ \E id \in RequestIds, readOk \in BOOLEAN, writeOk \in BOOLEAN :
       Handled(releaseTable(file, id, readOk, writeOk))
  /\ UNCHANGED <<inflight, results, probe>>

\* const now = new Date(): the system clock is an input of the handler
CleanupExpired ==
  /\ last = NoCall
  /\ \E now \in Times, readOk \in BOOLEAN, writeOk \in BOOLEAN :
       Handled(cleanupExpired(file, now, readOk, writeOk))
  /\ UNCHANGED <<inflight, results, probe>>

\* the response has gone out; the event loop takes the next request
ResponseSent ==
  /\ last # NoCall
  /\ last' = NoCall
  /\ UNCHANGED <<file, inflight, results, probe>>

Next ==
  \/ ListTables
  \/ GetTable
  \/ ReserveTable
  \/ ReleaseTable
  \/ CleanupExpired
  \/ ResponseSent

Spec == Init /\ [][Next]_vars

(***************************************************************************)
(* Concurrent callers.  Each caller sends one well-formed reserve request; *)
(* the requests wait in the event loop (inflight) and the server runs the  *)
(* reserve handler on them one at a time, in any order.  results keeps the *)
(* response each caller received.                                          *)
(***************************************************************************)
hasIssued(c) ==
  \/ \E r \in inflight : r.caller = c
  \/ \E r \in results : r.caller = c

Arrive ==
  /\ \E c \in Callers, id \in RequestIds, iv \in ValidIntervals :
       /\ ~hasIssued(c)
       /\ inflight' = inflight \cup
            {[caller |-> c,
              req |-> Request(id, CallerNames[c], toISOString(iv[1]),
                              toISOString(iv[2]), 0)]}
  /\ UNCHANGED <<file, last, results, probe>>

\* the batch is concurrent: every caller's request is in flight before the
\* event loop runs the first handler
Serve ==
  /\ \A c \in Callers : hasIssued(c)
  /\ \E r \in inflight, readOk \in BOOLEAN, writeOk \in BOOLEAN :
       LET c == reserveTable(file, r.req, readOk, writeOk)
       IN /\ file' = fileAfter(file, c)
          /\ inflight' = inflight \ {r}
          /\ results' = results \cup {[caller |-> r.caller, call |-> c]}
  /\ UNCHANGED <<last, probe>>

NextConc == Arrive \/ Serve

SpecConc == Init /\ [][NextConc]_vars

(***************************************************************************)
(* overlaps as a function of its four Dates: the arguments are drawn from  *)
(* the instants and the invalid Date, and the function is applied to them  *)
(* in both orders.                                                         *)
(***************************************************************************)
Dates == Times \cup {NaN}

InitOverlaps ==
  /\ file = InitialTables
  /\ last = NoCall
  /\ inflight = {}
  /\ results = {}
  /\ \E aStart \in Dates, aEnd \in Dates, bStart \in Dates, bEnd \in Dates :
       probe = Probe(aStart, aEnd, bStart, bEnd, FALSE, FALSE, FALSE)

ApplyOverlaps ==
  /\ ~probe.done
  /\ probe' = [probe EXCEPT
                 !.done = TRUE,
                 !.ab = overlaps(probe.aStart, probe.aEnd, probe.bStart, probe.bEnd),
                 !.ba = overlaps(probe.bStart, probe.bEnd, probe.aStart, probe.aEnd)]
  /\ UNCHANGED <<file, last, inflight, results>>

SpecOverlaps == InitOverlaps /\ [][ApplyOverlaps]_vars

(***************************************************************************)
(* Properties.                                                             *)
(***************************************************************************)
Ids(tables) == {tables[i].id : i \in 1..Len(tables)}
startOf(r) == DateParse(r.start)
endOf(r) == DateParse(r.end)
Intersect(s1, e1, s2, e2) == s1 < e2 /\ s2 < e1

\* the request is one a typed caller can make: an owner and an interval
\* [s, e) with s < e
WellFormed(req) ==
  /\ req.username # ""
  /\ startOf(req) # NaN /\ endOf(req) # NaN
  /\ startOf(req) < endOf(req)

\* C1: no two distinct reservations of one table of the persisted catalog
\* overlap, whatever sequence of reserve, release and cleanup calls ran.
C1_NoOverlap ==
  \A i \in 1..Len(file) :
    \A j, k \in 1..Len(file[i].reservations) :
      j # k =>
        ~Intersect(startOf(file[i].reservations[j]), endOf(file[i].reservations[j]),
                   startOf(file[i].reservations[k]), endOf(file[i].reservations[k]))

\* a reserve was admitted next to reservations the table already held
C1_Witness ==
  /\ last.op = "reserve" /\ last.status = 201 /\ last.writeOk
  /\ \E i \in 1..Len(file) : Len(file[i].reservations) >= 3

\* C2: when every caller of a concurrent batch asks for the same existing
\* table, the candidate intervals overlap pairwise and the table held nothing
\* that overlaps them, exactly one caller is admitted, its reservation is
\* stored, and every other caller gets Conflict (409).
C2_BatchComplete ==
  /\ inflight = {}
  /\ \A c \in Callers : \E r \in results : r.caller = c

C2_SameTableOverlapping ==
  /\ \E id \in Ids(InitialTables) : \A r \in results : r.call.req.id = id
  /\ \A r \in results : r.call.req.id \in Ids(r.call.loaded)
  /\ \A r1, r2 \in results :
       Intersect(startOf(r1.call.req), endOf(r1.call.req),
                 startOf(r2.call.req), endOf(r2.call.req))
  /\ \A r \in results : \A i \in 1..Len(InitialTables) :
       \A k \in 1..Len(InitialTables[i].reservations) :
         InitialTables[i].id = r.call.req.id =>
           ~Intersect(startOf(InitialTables[i].reservations[k]),
                      endOf(InitialTables[i].reservations[k]),
                      startOf(r.call.req), endOf(r.call.req))

Stored(r) ==
  \E i \in 1..Len(file) :
    /\ file[i].id = r.call.req.id
    /\ \E k \in 1..Len(file[i].reservations) :
         /\ file[i].reservations[k].username = r.call.req.username
         /\ startOf(file[i].reservations[k]) = startOf(r.call.req)
         /\ endOf(file[i].reservations[k]) = endOf(r.call.req)

C2_ExactlyOneAdmitted ==
  (C2_BatchComplete /\ C2_SameTableOverlapping) =>
    \E w \in results :
      /\ w.call.status = 201
      /\ Stored(w)
      /\ \A o \in results : o # w => o.call.status = 409

\* C3: once all concurrent calls have completed, every reservation whose
\* reserve call returned success (201) is in the persisted catalog.
C3_NoLostUpdate ==
  C2_BatchComplete => \A r \in results : r.call.status = 201 => Stored(r)

\* C4: for a table of the catalog and a well-formed request for [s, e), the
\* reserve ends in Conflict (409) exactly when some reservation r of the table
\* has r.start < e and s < r.end, and in success (201) otherwise; a candidate
\* that only touches a held reservation at a boundary is admitted.
C4_ConflictIffOverlap ==
  (last.op = "reserve" /\ WellFormed(last.req)) =>
    \A i \in 1..Len(last.loaded) :
      last.loaded[i].id = last.req.id =>
        /\ last.status \in {201, 409}
        /\ last.status = 409 <=>
             \E k \in 1..Len(last.loaded[i].reservations) :
               Intersect(startOf(last.loaded[i].reservations[k]),
                         endOf(last.loaded[i].reservations[k]),
                         startOf(last.req), endOf(last.req))

\* a candidate that starts where one held reservation ends and ends where
\* another starts is admitted
C4_Witness ==
  /\ last.op = "reserve" /\ last.status = 201
  /\ \E i \in 1..Len(last.loaded) :
       /\ last.loaded[i].id = last.req.id
       /\ \E k \in 1..Len(last.loaded[i].reservations) :
            endOf(last.loaded[i].reservations[k]) = startOf(last.req)
       /\ \E k \in 1..Len(last.loaded[i].reservations) :
            startOf(last.loaded[i].reservations[k]) = endOf(last.req)

C6_WriteFailureSurfaced ==
  (last.writeCalled /\ ~last.writeOk) => last.status \notin {200, 201}

\* C7: after a release that returned success, the table read back from the
\* store has no reservations, whatever it held, and every other table is as
\* the release found it.
C7_ReleaseEmpties ==
  (last.op = "release" /\ last.status = 200) =>
    /\ getTable(file, last.req.id, TRUE).status = 200
    /\ getTable(file, last.req.id, TRUE).body[1].reservations = <<>>
    /\ Len(file) = Len(last.loaded)
    /\ \A i \in 1..Len(file) :
         file[i].id # last.req.id => file[i] = last.loaded[i]

\* C8: of every table of the catalog it loaded, cleanup at `now` drops
\* exactly the reservations with end <= now and keeps the ones with
\* end > now in their order.
C8_SweepExactlyExpired ==
  last.op = "cleanup" =>
    /\ Len(last.written) = Len(last.loaded)
    /\ \A i \in 1..Len(last.loaded) :
         /\ last.written[i].id = last.loaded[i].id
         /\ last.written[i].reservations =
              SelectSeq(last.loaded[i].reservations,
                        LAMBDA r : ~(endOf(r) <= last.req.now))

\* a cleanup met one reservation that ended before now, one that ends at now
\* and one that ends later
C8_Witness ==
  /\ last.op = "cleanup" /\ last.readOk
  /\ \E i, j, k \in 1..Len(last.loaded) :
       /\ \E r \in 1..Len(last.loaded[i].reservations) :
            endOf(last.loaded[i].reservations[r]) < last.req.now
       /\ \E r \in 1..Len(last.loaded[j].reservations) :
            endOf(last.loaded[j].reservations[r]) = last.req.now
       /\ \E r \in 1..Len(last.loaded[k].reservations) :
            endOf(last.loaded[k].reservations[r]) > last.req.now

\* C9: the count cleanup returns is the number of reservations of the
\* catalog before the sweep minus the number after it.
C9_RemovedIsDifference ==
  last.op = "cleanup" =>
    last.removed = TotalReservations(last.loaded) - TotalReservations(last.written)

\* a cleanup removed reservations from two tables
C9_Witness ==
  /\ last.op = "cleanup"
  /\ Len(last.loaded) >= 2
  /\ \A i \in 1..2 :
       Len(last.written[i].reservations) < Len(last.loaded[i].reservations)

\* C10: a reserve request that lacks the owner, the start or the end, whose
\* timestamps do not parse, or whose interval has start >= end is rejected
\* with InvalidInterval (400) and adds no reservation.
C10_Invalid(req) ==
  \/ req.username = "" \/ req.start = Absent \/ req.end = Absent
  \/ req.start = Garbage \/ req.end = Garbage
  \/ startOf(req) >= endOf(req)

C10_InvalidRejected ==
  [][(last'.op = "reserve" /\ C10_Invalid(last'.req)) =>
       (last'.status = 400 /\ file' = file)]_vars

\* a zero-length interval, written with the start in another UTC offset
\* than the end, was rejected
C10_Witness ==
  /\ last.op = "reserve" /\ last.status = 400
  /\ last.req.username # ""
  /\ last.req.start.kind = "ts" /\ last.req.end.kind = "ts"
  /\ last.req.start # last.req.end
  /\ startOf(last.req) = endOf(last.req)

\* C11: when readData cannot read or parse the file, the handler works on
\* an empty catalog and raises no error: listTables answers the empty list,
\* getTable, reserveTable and releaseTable answer NotFound (404) for any id.
C11_ReadFailureIsEmptyCatalog ==
  (last.readCalled /\ ~last.readOk) =>
    /\ last.loaded = <<>>
    /\ last.op = "list" => (last.status = 200 /\ last.body = <<>>)
    /\ last.op \in {"get", "reserve", "release"} => last.status = 404

\* a reserve for a table the file holds, with reservations, got 404 because
\* the read failed
C11_Witness ==
  /\ last.op = "reserve" /\ last.readCalled /\ ~last.readOk
  /\ last.req.id \in Ids(file)
  /\ TotalReservations(file) > 0

\* C12: overlaps gives the same answer with its two intervals exchanged.
C12_OverlapsCommutes == probe.done => probe.ab = probe.ba

\* two different intervals that overlap were compared
C12_Witness ==
  /\ probe.done /\ probe.ab
  /\ probe.aStart < probe.aEnd /\ probe.bStart < probe.bEnd
  /\ probe.aStart # probe.bStart /\ probe.aEnd # probe.bEnd

C13_Overlapping(tables, req) ==
  \E i \in 1..Len(tables) :
    /\ tables[i].id = req.id
    /\ \E k \in 1..Len(tables[i].reservations) :
         Intersect(startOf(tables[i].reservations[k]),
                   endOf(tables[i].reservations[k]), startOf(req), endOf(req))

C14_AppendsOne ==
  (last.op = "reserve" /\ last.status = 201) =>
    /\ Len(file) = Len(last.loaded)
    /\ \A i \in 1..Len(file) :
         IF last.loaded[i].id = last.req.id
         THEN /\ file[i].id = last.loaded[i].id
              /\ Len(file[i].reservations) = Len(last.loaded[i].reservations) + 1
              /\ SubSeq(file[i].reservations, 1, Len(last.loaded[i].reservations))
                   = last.loaded[i].reservations
              /\ LET r == file[i].reservations[Len(file[i].reservations)]
                 IN /\ r.username = last.req.username
                    /\ startOf(r) = startOf(last.req)
                    /\ endOf(r) = endOf(last.req)
         ELSE file[i] = last.loaded[i]

\* C15: every reservation of the persisted catalog has start < end.
C15_StoredIntervalsPositive ==
  \A i \in 1..Len(file) :
    \A k \in 1..Len(file[i].reservations) :
      /\ startOf(file[i].reservations[k]) # NaN
      /\ endOf(file[i].reservations[k]) # NaN
      /\ startOf(file[i].reservations[k]) < endOf(file[i].reservations[k])

\* a reservation of one instant's length, asked for with the start written
\* in another UTC offset than the end, was stored
C15_Witness ==
  /\ last.op = "reserve" /\ last.status = 201 /\ last.writeOk
  /\ last.req.start.off # last.req.end.off
  /\ endOf(last.req) = startOf(last.req) + 1
  /\ Stored([call |-> last])

\* C16: no operation adds or removes a table: the persisted catalog has the
\* same table ids in every reachable state, also when a store read failed.
C16_TableIdsStable == Ids(file) = Ids(InitialTables)

\* C17: a reserve rejected with InvalidInterval (400) or Conflict (409) and
\* a release rejected with NotFound (404) call no save and leave the
\* persisted catalog as it was.
C17_Rejected(c) ==
  \/ c.op = "reserve" /\ c.status \in {400, 409}
  \/ c.op = "release" /\ c.status = 404

C17_RejectedSavesNothing ==
  [][C17_Rejected(last') => (~last'.writeCalled /\ file' = file)]_vars

\* a reserve that conflicts with a reservation of the table was rejected
C17_Witness ==
  /\ last.op = "reserve" /\ last.status = 409
  /\ C13_Overlapping(file, last.req)

\* C18: a second cleanup at the instant of the cleanup that just ran, with
\* no reserve in between, returns 0 and leaves the persisted catalog as it
\* is; and a cleanup leaves no table with more reservations than it had.
C18_CleanupIdempotent ==
  last.op = "cleanup" =>
    \A readOk \in BOOLEAN, writeOk \in BOOLEAN :
      LET again == cleanupExpired(file, last.req.now, readOk, writeOk)
          after == fileAfter(file, again)
      IN /\ again.removed = 0
         /\ after = file
         /\ \A i \in 1..Len(after) :
              /\ i <= Len(file)
              /\ Len(after[i].reservations) <= Len(file[i].reservations)
====
